---- MODULE Spec2Model ----
(***************************************************************************)
(* Model of the speak TTS daemon (src/python/server.py) and of its binary  *)
(* streaming codec (src/python/binary_protocol.py).                        *)
(*                                                                         *)
(* Three specifications share the module:                                  *)
(*   SpecSeg  - the text segmenter split_text_into_chunks                  *)
(*   SpecBin  - write_chunk / write_end / write_error and read_chunk       *)
(*   SpecSrv  - run_server, handle_request and the request handlers        *)
(*   SpecSrvFair - SpecSrv with the scheduling of the server's one thread  *)
(* Strings are sequences of one-character strings, bytes are 0..255.       *)
(***************************************************************************)
EXTENDS Integers, Sequences, FiniteSets, TLC

VARIABLES
    \* ---- segmenter (SpecSeg)
    text,        \* the argument `text` of split_text_into_chunks
    max_chars,   \* the argument `max_chars`
    chunks,      \* the returned list
    segpc,       \* "call" before the call, "done" after it
    \* ---- binary codec (SpecBin)
    bmsg,        \* the message handed to write_chunk / write_end / write_error
    skind,       \* the kind of `stream`: "socket", "buffered" or "raw"
    wire,        \* bytes written to the stream and not yet read
    complete,    \* the stream holds the whole message (peer closed after it)
    rpc,         \* position of read_chunk
    hdr,         \* read_chunk's `header`
    body,        \* read_chunk's `msg_bytes` / `sample_bytes`
    rres,        \* what read_chunk returned or raised
    rspin,       \* a recv() of read_chunk has returned b'' inside a loop
    \* ---- server (SpecSrv)
    srv,         \* run_server: "listening", "serving" (a connection is
                 \* open) or "stopped" (the process has exited)
    listener,    \* the listening socket `server` is open
    sockfile,    \* SOCKET_PATH exists
    pipe,        \* "ok", or "broken" once a send on `conn` has failed
    req,         \* the line of `buffer` handled last on this connection
    out,         \* the messages written to `conn` while handling `req`
    nlines,      \* number of non-blank lines taken from `buffer` on this
                 \* connection
    nconns,      \* number of connections accepted so far
    sb_line,     \* nlines at the first stream-binary request of this
                 \* connection, 0 before it
    term_line,   \* nlines when a binary End or Error was first written on
                 \* this connection, 0 before it
    nstreams,    \* binary streams started on this connection
    now,         \* time.time(), in steps of TickSeconds
    last_tts_time,  \* run_server's `last_tts_time`, on the same scale
    model_name,  \* the global `_model_name`
    gen_model,   \* the model generate_audio has loaded: the one of the last
                 \* request for which a call of it returned
    env,         \* what generate_audio and the file system did for `req`
    calls,       \* calls of generate_audio made while handling `req`
    files,       \* files written while handling `req` and still on disk
    nopen,       \* accepted connections that are not closed
    buffer,      \* arrival numbers of the lines received and not yet taken
    nsent,       \* lines the client has sent on this connection
    taken,       \* arrival number of the line taken last, 0 before it
    terr,        \* a send has failed on some connection
    unk_line     \* nlines at the last request for an unknown method of
                 \* this connection, 0 before it

segvars == <<text, max_chars, chunks, segpc>>
binvars == <<bmsg, skind, wire, complete, rpc, hdr, body, rres, rspin>>
srvvars == <<srv, listener, sockfile, pipe, req, out, nlines, nconns,
             sb_line, term_line, nstreams, now, last_tts_time, model_name,
             gen_model, env, calls, files, nopen, buffer, nsent, taken,
             terr, unk_line>>
vars == <<segvars, binvars, srvvars>>

(***************************************************************************)
(* Bounds of the segmenter inputs.                                         *)
(***************************************************************************)
MaxTextLen == 7
MaxMaxChars == 4

\* the characters the input texts are drawn from: a letter, a sentence end,
\* a clause end and a blank
InputChars == {"a", ".", ",", " "}

(***************************************************************************)
(* Generic sequence helpers.                                               *)
(***************************************************************************)
SeqsUpTo(S, n) == UNION {[1..k -> S] : k \in 0..n}

RECURSIVE Flatten(_)
Flatten(ss) == IF ss = <<>> THEN <<>> ELSE Head(ss) \o Flatten(Tail(ss))

(***************************************************************************)
(* Character classes of the two regular expressions and of str.split().    *)
(***************************************************************************)
Whitespace == {" ", "\t", "\n", "\r"}
SentenceEnd == {".", "!", "?"}
ClauseEnd == {",", ";", ":", "-"}

\* str.strip()
RECURSIVE lstrip(_)
lstrip(s) == IF s # <<>> /\ Head(s) \in Whitespace THEN lstrip(Tail(s)) ELSE s

RECURSIVE rstrip(_)
rstrip(s) ==
    IF s # <<>> /\ s[Len(s)] \in Whitespace
    THEN rstrip(SubSeq(s, 1, Len(s) - 1))
    ELSE s

strip(s) == rstrip(lstrip(s))

\* str.split(): the maximal runs of non-whitespace characters, in order
RECURSIVE str_split(_, _, _)
str_split(s, word, acc) ==
    IF s = <<>>
    THEN IF word = <<>> THEN acc ELSE Append(acc, word)
    ELSE IF Head(s) \in Whitespace
         THEN str_split(Tail(s), <<>>,
                        IF word = <<>> THEN acc ELSE Append(acc, word))
         ELSE str_split(Tail(s), Append(word, Head(s)), acc)

\* ' '.join(parts)
RECURSIVE join_space(_)
join_space(parts) ==
    IF parts = <<>> THEN <<>>
    ELSE IF Len(parts) = 1 THEN parts[1]
    ELSE parts[1] \o <<" ">> \o join_space(Tail(parts))

\* text = ' '.join(text.split())
normalize(s) == join_space(str_split(s, <<>>, <<>>))

\* re.split(r'(?<=[P])\s+', s): a separator is a maximal whitespace run that
\* directly follows a character of P; the pieces between separators are
\* returned, the separators are not.
RECURSIVE re_split(_, _, _, _)
re_split(s, P, piece, acc) ==
    IF s = <<>> THEN Append(acc, piece)
    ELSE IF Head(s) \in Whitespace /\ piece # <<>> /\ piece[Len(piece)] \in P
         THEN re_split(lstrip(s), P, <<>>, Append(acc, piece))
         ELSE re_split(Tail(s), P, Append(piece, Head(s)), acc)

(***************************************************************************)
(* split_text_into_chunks                                                  *)
(***************************************************************************)
\* the flush test without the separating space
ExceedsNoSep(current_chunk, piece, limit) ==
    Len(current_chunk) + Len(piece) > limit

\* the flush test of both loops: appending `piece` and one separating space
\* to the buffer would exceed the limit
Exceeds(current_chunk, piece, limit) ==
    Len(current_chunk) + Len(piece) + 1 > limit

\* the buffer extended without the separating space
ExtendNoSpace(current_chunk, piece) ==
    IF current_chunk # <<>> THEN strip(current_chunk \o piece)
    ELSE piece

\* (current_chunk + " " + piece).strip() if current_chunk else piece
Extend(current_chunk, piece) ==
    IF current_chunk # <<>> THEN strip(current_chunk \o <<" ">> \o piece)
    ELSE piece

\* the inner loop `for clause in clauses`
RECURSIVE pack_clauses(_, _, _, _)
pack_clauses(clauses, limit, emitted, current_chunk) ==
    IF clauses = <<>> THEN [chunks |-> emitted, current_chunk |-> current_chunk]
    ELSE LET clause == strip(Head(clauses)) IN
         IF clause = <<>>
         THEN pack_clauses(Tail(clauses), limit, emitted, current_chunk)
         ELSE IF Exceeds(current_chunk, clause, limit)
              THEN pack_clauses(Tail(clauses), limit,
                       IF current_chunk # <<>>
                       THEN Append(emitted, strip(current_chunk)) ELSE emitted,
                       clause)
              ELSE pack_clauses(Tail(clauses), limit, emitted,
                                Extend(current_chunk, clause))

\* the outer loop `for sentence in sentences`
RECURSIVE pack_sentences(_, _, _, _)
pack_sentences(sentences, limit, emitted, current_chunk) ==
    IF sentences = <<>> THEN [chunks |-> emitted, current_chunk |-> current_chunk]
    ELSE LET sentence == strip(Head(sentences)) IN
         IF sentence = <<>>
         THEN pack_sentences(Tail(sentences), limit, emitted, current_chunk)
         ELSE IF Exceeds(current_chunk, sentence, limit)
              THEN LET flushed == IF current_chunk # <<>>
                                  THEN Append(emitted, strip(current_chunk))
                                  ELSE emitted
                   IN IF Len(sentence) > limit
                      THEN LET r == pack_clauses(
                                      re_split(sentence, ClauseEnd, <<>>, <<>>),
                                      limit, flushed, <<>>)
                           IN pack_sentences(Tail(sentences), limit,
                                             r.chunks, r.current_chunk)
                      ELSE pack_sentences(Tail(sentences), limit,
                                          flushed, sentence)
              ELSE pack_sentences(Tail(sentences), limit, emitted,
                                  Extend(current_chunk, sentence))

split_text_into_chunks(t, limit) ==
    LET norm == normalize(t) IN
    IF Len(norm) <= limit THEN <<norm>>
    ELSE LET r == pack_sentences(re_split(norm, SentenceEnd, <<>>, <<>>),
                                 limit, <<>>, <<>>)
         IN IF r.current_chunk # <<>>
            THEN Append(r.chunks, strip(r.current_chunk))
            ELSE r.chunks

(***************************************************************************)
(* SpecSeg: the segmenter applied to every bounded input.                  *)
(***************************************************************************)
Split ==
    /\ segpc = "call"
    /\ chunks' = split_text_into_chunks(text, max_chars)
    /\ segpc' = "done"
    /\ UNCHANGED <<text, max_chars>>
    /\ UNCHANGED <<binvars, srvvars>>

(***************************************************************************)
(* binary_protocol.py                                                      *)
(*                                                                         *)
(* An unsigned 32-bit integer is the pair of its 16-bit halves, so that    *)
(* the reserved markers 0xFFFFFFFF and 0xFFFFFFFE are representable.       *)
(***************************************************************************)
MaxSamples == 2
MaxMsgChars == 2

U32(h, l) == [hi |-> h, lo |-> l]
NatToU32(n) == U32(n \div 65536, n % 65536)
U32ToNat(v) == v.hi * 65536 + v.lo

MAGIC == <<83, 80, 75, 82>>
END_MARKER == U32(65535, 65535)
ERROR_MARKER == U32(65535, 65534)
HEADER_LEN == 16

\* struct.pack('>I', v): the bytes in big-endian order
pack_u32_be(v) == <<v.hi \div 256, v.hi % 256, v.lo \div 256, v.lo % 256>>

\* struct.pack('<I', v) and struct.unpack('<I', b)
pack_u32(v) == <<v.lo % 256, v.lo \div 256, v.hi % 256, v.hi \div 256>>
unpack_u32(b) == U32(b[3] + 256 * b[4], b[1] + 256 * b[2])

\* struct.pack('<4sIII', magic, a, b, c)
pack_header(magic, a, b, c) == magic \o pack_u32(a) \o pack_u32(b) \o pack_u32(c)

\* struct.unpack('<4sIII', header)
unpack_header(h) ==
    [magic |-> SubSeq(h, 1, 4),
     id_or_marker |-> unpack_u32(SubSeq(h, 5, 8)),
     count |-> unpack_u32(SubSeq(h, 9, 12)),
     rate |-> unpack_u32(SubSeq(h, 13, 16))]

\* a float32 sample is its four little-endian bytes
\* samples_f32.tobytes()
tobytes(samples) == Flatten(samples)

\* np.frombuffer(sample_bytes, dtype=np.float32); the buffer size must be a
\* multiple of the element size
frombuffer(b) == [i \in 1..(Len(b) \div 4) |-> SubSeq(b, 4 * i - 3, 4 * i)]

\* message.encode('utf-8') for code points below 0x800
RECURSIVE utf8_encode(_)
utf8_encode(cps) ==
    IF cps = <<>> THEN <<>>
    ELSE (IF Head(cps) < 128 THEN <<Head(cps)>>
          ELSE <<192 + (Head(cps) \div 64), 128 + (Head(cps) % 64)>>)
         \o utf8_encode(Tail(cps))

\* msg_bytes.decode('utf-8'): the code points, or "UnicodeDecodeError"
RECURSIVE utf8_decode(_, _)
utf8_decode(b, acc) ==
    IF b = <<>> THEN acc
    ELSE IF Head(b) < 128 THEN utf8_decode(Tail(b), Append(acc, Head(b)))
    ELSE IF /\ Head(b) >= 194 /\ Head(b) < 224
            /\ Len(b) >= 2 /\ b[2] >= 128 /\ b[2] < 192
         THEN utf8_decode(Tail(Tail(b)),
                          Append(acc, (Head(b) - 192) * 64 + (b[2] - 128)))
    ELSE "UnicodeDecodeError"

\* the bytes write_chunk puts on the stream
write_chunk(chunk_id, samples, sample_rate) ==
    pack_header(MAGIC, chunk_id, NatToU32(Len(samples)), sample_rate)
        \o tobytes(samples)

\* the bytes write_end puts on the stream
write_end(total_chunks) ==
    pack_header(MAGIC, END_MARKER, total_chunks, U32(0, 0))

\* the bytes write_error puts on the stream
write_error(message) ==
    LET msg_bytes == utf8_encode(message) IN
    pack_header(MAGIC, ERROR_MARKER, NatToU32(Len(msg_bytes)), U32(0, 0))
        \o msg_bytes

(***************************************************************************)
(* SpecBin: one message is written to a stream and read back by            *)
(* read_chunk.  A socket's recv(n) and a raw file's read(n) return between *)
(* 1 and n of the bytes still to come, a buffered file's read(n) returns n *)
(* of them unless the stream ends before; each returns b'' at the end of   *)
(* the stream.                                                             *)
(***************************************************************************)
ChunkIds == {U32(0, 0), U32(258, 772), ERROR_MARKER, END_MARKER}
SampleRates == {U32(0, 24000), U32(1, 20480)}
Float32s == {<<0, 0, 128, 63>>, <<0, 0, 0, 191>>}
MsgChars == {104, 233}
StreamKinds == {"socket", "buffered", "raw"}

Messages ==
    [type : {"chunk"}, id : ChunkIds, rate : SampleRates,
     samples : SeqsUpTo(Float32s, MaxSamples)]
    \cup [type : {"end"}, total : {NatToU32(n) : n \in 0..MaxSamples}]
    \cup [type : {"error"}, message : SeqsUpTo(MsgChars, MaxMsgChars)]

NoResult == [type |-> "none"]

\* the stream carries the first n bytes of b before its end
Transmit(b, n) ==
    /\ wire' = SubSeq(b, 1, n)
    /\ complete' = (n = Len(b))
    /\ rpc' = "header"
    /\ UNCHANGED <<bmsg, skind, hdr, body, rres, rspin>>

WriteChunk ==
    /\ rpc = "write" /\ bmsg.type = "chunk"
    /\ LET b == write_chunk(bmsg.id, bmsg.samples, bmsg.rate) IN
       \E n \in 0..Len(b) : Transmit(b, n)
    /\ UNCHANGED <<segvars, srvvars>>

WriteEnd ==
    /\ rpc = "write" /\ bmsg.type = "end"
    /\ LET b == write_end(bmsg.total) IN
       \E n \in 0..Len(b) : Transmit(b, n)
    /\ UNCHANGED <<segvars, srvvars>>

WriteError ==
    /\ rpc = "write" /\ bmsg.type = "error"
    /\ LET b == write_error(bmsg.message) IN
       \E n \in 0..Len(b) : Transmit(b, n)
    /\ UNCHANGED <<segvars, srvvars>>

\* the sizes one recv(want) / read(want) can return
ReadSizes(kind, want) ==
    LET most == IF want < Len(wire) THEN want ELSE Len(wire) IN
    IF most = 0 THEN {0}
    ELSE IF kind = "buffered" THEN {most}
    ELSE 1..most

\* header += stream.recv(16 - len(header)), one turn of the loop
RecvHeader ==
    /\ rpc = "header" /\ skind = "socket" /\ Len(hdr) < HEADER_LEN
    /\ \E k \in ReadSizes(skind, HEADER_LEN - Len(hdr)) :
          /\ hdr' = hdr \o SubSeq(wire, 1, k)
          /\ wire' = SubSeq(wire, k + 1, Len(wire))
          /\ rspin' = (rspin \/ k = 0)
    /\ UNCHANGED <<bmsg, skind, complete, rpc, body, rres>>
    /\ UNCHANGED <<segvars, srvvars>>

\* header = stream.read(16)
ReadHeader ==
    /\ rpc = "header" /\ skind # "socket" /\ hdr = <<>>
    /\ \E k \in ReadSizes(skind, HEADER_LEN) :
          /\ hdr' = SubSeq(wire, 1, k)
          /\ wire' = SubSeq(wire, k + 1, Len(wire))
    /\ rpc' = "unpack"
    /\ UNCHANGED <<bmsg, skind, complete, body, rres, rspin>>
    /\ UNCHANGED <<segvars, srvvars>>

\* the socket loop has ended with a full header
HeaderRead ==
    /\ rpc = "header" /\ skind = "socket" /\ Len(hdr) >= HEADER_LEN
    /\ rpc' = "unpack"
    /\ UNCHANGED <<bmsg, skind, wire, complete, hdr, body, rres, rspin>>
    /\ UNCHANGED <<segvars, srvvars>>

\* the number of body bytes the header announces for its tag
BodyLen(h) ==
    IF h.id_or_marker = END_MARKER THEN 0
    ELSE IF h.id_or_marker = ERROR_MARKER THEN U32ToNat(h.count)
    ELSE U32ToNat(h.count) * 4

\* the length check, struct.unpack, the magic check and the End branch
Unpack ==
    /\ rpc = "unpack"
    /\ IF Len(hdr) < HEADER_LEN
       THEN rpc' = "raised" /\ rres' = [type |-> "IOError"]
       ELSE LET h == unpack_header(hdr) IN
            IF h.magic # MAGIC
            THEN rpc' = "raised" /\ rres' = [type |-> "ValueError"]
            ELSE IF h.id_or_marker = END_MARKER
            THEN rpc' = "done"
                 /\ rres' = [type |-> "end", total_chunks |-> h.count]
            ELSE rpc' = "body" /\ rres' = rres
    /\ UNCHANGED <<bmsg, skind, wire, complete, hdr, body, rspin>>
    /\ UNCHANGED <<segvars, srvvars>>

\* msg_bytes += stream.recv(count - len(msg_bytes)), or the same for
\* sample_bytes, one turn of the loop
RecvBody ==
    /\ rpc = "body" /\ skind = "socket"
    /\ Len(body) < BodyLen(unpack_header(hdr))
    /\ \E k \in ReadSizes(skind, BodyLen(unpack_header(hdr)) - Len(body)) :
          /\ body' = body \o SubSeq(wire, 1, k)
          /\ wire' = SubSeq(wire, k + 1, Len(wire))
          /\ rspin' = (rspin \/ k = 0)
    /\ UNCHANGED <<bmsg, skind, complete, rpc, hdr, rres>>
    /\ UNCHANGED <<segvars, srvvars>>

\* msg_bytes = stream.read(count) or sample_bytes = stream.read(count * 4)
ReadBody ==
    /\ rpc = "body" /\ skind # "socket"
    /\ \E k \in ReadSizes(skind, BodyLen(unpack_header(hdr))) :
          /\ body' = SubSeq(wire, 1, k)
          /\ wire' = SubSeq(wire, k + 1, Len(wire))
    /\ rpc' = "decode"
    /\ UNCHANGED <<bmsg, skind, complete, hdr, rres, rspin>>
    /\ UNCHANGED <<segvars, srvvars>>

\* the socket loop has ended with a full body
BodyRead ==
    /\ rpc = "body" /\ skind = "socket"
    /\ Len(body) >= BodyLen(unpack_header(hdr))
    /\ rpc' = "decode"
    /\ UNCHANGED <<bmsg, skind, wire, complete, hdr, body, rres, rspin>>
    /\ UNCHANGED <<segvars, srvvars>>

\* the return statements of the Error and of the Chunk branch
Decode ==
    /\ rpc = "decode"
    /\ LET h == unpack_header(hdr) IN
       IF h.id_or_marker = ERROR_MARKER
       THEN IF utf8_decode(body, <<>>) = "UnicodeDecodeError"
            THEN rpc' = "raised" /\ rres' = [type |-> "UnicodeDecodeError"]
            ELSE rpc' = "done"
                 /\ rres' = [type |-> "error",
                             message |-> utf8_decode(body, <<>>)]
       ELSE IF Len(body) % 4 # 0
            THEN rpc' = "raised" /\ rres' = [type |-> "ValueError"]
            ELSE rpc' = "done"
                 /\ rres' = [type |-> "chunk", id |-> h.id_or_marker,
                             samples |-> frombuffer(body),
                             sample_rate |-> h.rate]
    /\ UNCHANGED <<bmsg, skind, wire, complete, hdr, body, rspin>>
    /\ UNCHANGED <<segvars, srvvars>>

(***************************************************************************)
(* server.py: the messages                                                 *)
(*                                                                         *)
(* A text is represented by the number of units split_text_into_chunks     *)
(* returns for it, 0 standing for a missing or empty `text` parameter.     *)
(***************************************************************************)
MaxUnits == 2
MaxLines == 2
MaxConns == 2

Ids == {"1", "2"}
NoId == "absent"
Absent == "absent"
NoError == {}

PARSE_ERROR == -32700
UNKNOWN_METHOD == -1
NO_TEXT == 1
GENERATION_FAILED == 2
NO_AUDIO == 3

NoLine == [kind |-> "none", id |-> NoId, method |-> "", text |-> 0,
           stream |-> FALSE]

\* the lines a client can send: requests, and lines that are no request
Requests ==
    [kind : {"request"}, id : Ids \cup {NoId},
     method : {"health", "list-models", "shutdown", "frobnicate"},
     text : {0}, stream : {FALSE}]
    \cup [kind : {"request"}, id : Ids \cup {NoId}, method : {"generate"},
          text : 0..MaxUnits, stream : BOOLEAN]
    \cup [kind : {"request"}, id : Ids \cup {NoId}, method : {"stream-binary"},
          text : 0..MaxUnits, stream : {FALSE}]

Lines ==
    Requests
    \cup [kind : {"blank", "bad_utf8", "bad_json", "non_object"},
          id : {NoId}, method : {""}, text : {0}, stream : {FALSE}]

\* a JSON message: id and result are Absent, error is the empty set, when
\* the message has no such field; otherwise error holds the error code
\* model is the field model_loaded, path the file audio_path names ("full"
\* or "partial"), reason tells that the message has a field reason; total
\* is the field total_chunks and done the number of units whose lengths
\* chars_done adds up, both 0 in a message without progress
Json(kind, id, result, error, n) ==
    [fmt |-> "json", kind |-> kind, id |-> id, result |-> result,
     error |-> error, n |-> n, model |-> Absent, path |-> Absent,
     reason |-> FALSE, total |-> 0, done |-> 0]

\* an SPKR frame
Frame(kind, n) ==
    [fmt |-> "binary", kind |-> kind, id |-> Absent, result |-> Absent,
     error |-> NoError, n |-> n, model |-> Absent, path |-> Absent,
     reason |-> FALSE, total |-> 0, done |-> 0]

\* the id looked up under a key no request has
request_id_default(request) == "unknown"

\* request_id = request.get("id", "unknown")
request_id(request) == IF request.id = NoId THEN "unknown" ELSE request.id

(***************************************************************************)
(* The handlers.  Each returns the messages it tries to send, in order,    *)
(* followed by the response run_server tries to send for it.  fail_at is   *)
(* the index of the unit at which generate_audio raises (the number of     *)
(* units when it never does), audio tells whether generate_audio leaves a  *)
(* .wav file for a unit.                                                   *)
(***************************************************************************)
\* params.get("model", "mlx-community/chatterbox-turbo-8bit")
DEFAULT_MODEL == "mlx-community/chatterbox-turbo-8bit"

\* "model_loaded": _model_name
handle_health(rid, loaded) ==
    <<[Json("response", rid, "health", NoError, 0) EXCEPT !.model = loaded]>>

handle_list_models(rid) == <<Json("response", rid, "models", NoError, 0)>>

unknown_method(rid) == <<Json("response", rid, Absent, {UNKNOWN_METHOD}, 0)>>

\* "chunk": i
progress_events_zero_based(rid, last, total, audio) ==
    [i \in 1..(last + 1) |->
        [Json("progress", rid, Absent, NoError, i - 1)
            EXCEPT !.total = total, !.done = IF audio THEN i - 1 ELSE 0]]

\* the progress events of units 0..last: that of unit i is sent at the top
\* of iteration i with "chunk": i + 1, and chars_done has grown by
\* len(chunk) for each file saved in the iterations before
progress_events(rid, last, total, audio) ==
    [i \in 1..(last + 1) |->
        [Json("progress", rid, Absent, NoError, i)
            EXCEPT !.total = total, !.done = IF audio THEN i - 1 ELSE 0]]

\* the streamed chunk messages 1..count of handle_generate_stream
chunk_messages(rid, count) ==
    [i \in 1..count |-> Json("chunk", rid, Absent, NoError, i)]

handle_generate_stream(rid, units, fail_at, audio) ==
    LET done == IF fail_at < units THEN fail_at ELSE units
        sent == IF audio THEN done ELSE 0
    IN chunk_messages(rid, sent)
       \o (IF fail_at < units
           THEN <<Json("response", rid, Absent, {GENERATION_FAILED}, 0)>>
           ELSE <<Json("response", rid, Absent, NoError, sent)>>)

\* len(saved_chunk_files) when the loop over the units is left: the units
\* before fail_at whose .wav file was found and read
saved_units_off(units, fail_at, audio) ==
    IF audio THEN (IF fail_at < units THEN fail_at + 1 ELSE units) ELSE 0

saved_units(units, fail_at, audio) ==
    IF audio THEN (IF fail_at < units THEN fail_at ELSE units) ELSE 0

\* `if saved_chunk_files:` and `if all_audio:` of the except branch
has_partial_always(saved) == TRUE

has_partial(saved) == saved > 0

\* `if not text:` of handle_generate and of handle_stream_binary
text_missing_never(units) == FALSE

text_missing(units) == units = 0

\* recover_ok tells whether the partial output could be read, joined and
\* written; loaded is `_model_name`
handle_generate(rid, units, stream, fail_at, audio, recover_ok, loaded) ==
    IF text_missing(units)
    THEN <<Json("response", rid, Absent, {NO_TEXT}, 0)>>
    ELSE IF stream
    THEN handle_generate_stream(rid, units, fail_at, audio)
    ELSE LET saved == saved_units(units, fail_at, audio)
         IN (IF loaded # DEFAULT_MODEL
             THEN <<Json("status", rid, Absent, NoError, 0)>>
             ELSE <<>>)
            \o progress_events(rid, IF fail_at < units THEN fail_at
                                    ELSE units - 1, units, audio)
            \o (IF fail_at < units
                THEN IF has_partial(saved) /\ recover_ok
                     THEN <<[Json("response", rid, "partial", NoError, saved)
                                EXCEPT !.path = "partial", !.reason = TRUE]>>
                     ELSE <<Json("response", rid, Absent,
                                 {GENERATION_FAILED}, 0)>>
                ELSE IF saved = 0
                     THEN <<Json("response", rid, Absent, {NO_AUDIO}, 0)>>
                     ELSE <<[Json("response", rid, "complete", NoError,
                                  saved) EXCEPT !.path = "full"]>>)

\* a file of TEMP_DIR: the scratch file of unit idx, or an output file
\* holding the audio of the units `holds`, in this order
File(name, idx, holds) == [name |-> name, idx |-> idx, holds |-> holds]

scratch_files(count) == {File("chunk", i, <<i>>) : i \in 0..(count - 1)}

\* the saved units are joined last first
concatenate_reversed(saved) == [i \in 1..saved |-> saved - i]

\* np.concatenate(all_audio), all_audio holding the audio of the files of
\* saved_chunk_files in the order in which they were appended
concatenate(saved) == [i \in 1..saved |-> i - 1]

\* the files a generate request leaves in TEMP_DIR.  fail_kind is "model"
\* when generate_audio raises at unit fail_at, and "read" when it has
\* written the file of that unit and wavfile.read raises on it.
generate_files(units, stream, fail_at, fail_kind, audio, recover_ok) ==
    LET saved == saved_units(units, fail_at, audio)
        unread == IF fail_at < units /\ fail_kind = "read"
                  THEN {File("chunk", fail_at, <<fail_at>>)} ELSE {}
    IN IF text_missing(units) THEN {}
       ELSE IF stream THEN scratch_files(saved)
       ELSE IF fail_at < units
       THEN IF has_partial(saved)
            THEN IF recover_ok
                 THEN {File("partial", 0, concatenate(saved))}
                      \cup unread
                 ELSE scratch_files(saved) \cup unread
            ELSE unread
       ELSE IF saved = 0 THEN {}
       ELSE {File("full", 0, concatenate(saved))}

\* the calls of generate_audio a generate request makes
generate_calls(units, fail_at) ==
    IF text_missing(units) THEN 0
    ELSE IF fail_at < units THEN fail_at + 1 ELSE units

\* the End frame counts the units of the text
handle_stream_binary_total(units, fail_at, audio) ==
    IF text_missing(units) THEN <<Frame("Error", 0)>>
    ELSE LET done == IF fail_at < units THEN fail_at ELSE units
             sent == IF audio THEN done ELSE 0
         IN [i \in 1..sent |-> Frame("Chunk", i - 1)]
            \o (IF fail_at < units THEN <<Frame("Error", 0)>>
                ELSE <<Frame("End", units)>>)

\* the frames handle_stream_binary tries to write
handle_stream_binary(units, fail_at, audio) ==
    IF text_missing(units) THEN <<Frame("Error", 0)>>
    ELSE LET done == IF fail_at < units THEN fail_at ELSE units
             sent == IF audio THEN done ELSE 0
         IN [i \in 1..sent |-> Frame("Chunk", i - 1)]
            \o (IF fail_at < units THEN <<Frame("Error", 0)>>
                ELSE <<Frame("End", sent)>>)

\* the calls of generate_audio a stream-binary request makes when the first
\* b of its frames can be written: a chunk that cannot be written ends the
\* loop
stream_binary_calls(units, fail_at, audio, b) ==
    LET sent == IF audio THEN (IF fail_at < units THEN fail_at ELSE units)
                ELSE 0
    IN IF text_missing(units) THEN 0
       ELSE IF b < sent THEN b + 1
       ELSE generate_calls(units, fail_at)

\* the methods handle_request and run_server know
KnownMethods == {"generate", "stream-binary", "health", "list-models",
                 "shutdown"}

\* the second value handle_request returns
is_tts_always(method) == TRUE

is_tts(method) == method \in {"generate", "stream-binary"}

(***************************************************************************)
(* server.py: run_server                                                   *)
(*                                                                         *)
(* srv is "listening" at the top of the accept loop, "selecting" inside    *)
(* select.select, "serving" while a connection is open and "stopped" once  *)
(* run_server has returned.                                                *)
(***************************************************************************)
IDLE_TIMEOUT_SECONDS == 3600

\* seconds per step of the clock, and the last value of the clock
TickSeconds == 3600
MaxClock == 2

\* what generate_audio and the file system do for a line that calls neither
NoEnv == [fail_at |-> 0, fail_kind |-> "model", audio |-> FALSE,
          recover_ok |-> TRUE]

\* the effects of a line that is no generation request
NoEffect == [tts |-> FALSE, calls |-> 0, files |-> {}, env |-> NoEnv]

\* idle_seconds > IDLE_TIMEOUT_SECONDS, idle_seconds being a whole number
\* of steps of TickSeconds
Expired == now - last_tts_time > IDLE_TIMEOUT_SECONDS \div TickSeconds

\* time passes, at the top of the accept loop or while a connection is
\* served; a step of the clock is longer than the 60 seconds after which
\* select returns, so none fits into one call of select
Tick ==
    /\ srv \in {"listening", "serving"} /\ now < MaxClock
    /\ now' = now + 1
    /\ UNCHANGED <<srv, listener, sockfile, pipe, req, out, nlines, nconns,
                   sb_line, term_line, nstreams, last_tts_time, model_name,
                   gen_model, env, calls, files, nopen, buffer, nsent, taken,
                   terr, unk_line>>
    /\ UNCHANGED <<segvars, binvars>>

\* the idle check at the top of the loop breaks out of it; the finally
\* clause closes the listening socket and removes SOCKET_PATH
IdleShutdown ==
    /\ srv = "listening" /\ Expired
    /\ srv' = "stopped" /\ listener' = FALSE /\ sockfile' = FALSE
    /\ UNCHANGED <<pipe, req, out, nlines, nconns, sb_line, term_line,
                   nstreams, now, last_tts_time, model_name, gen_model, env,
                   calls, files, nopen, buffer, nsent, taken, terr,
                   unk_line>>
    /\ UNCHANGED <<segvars, binvars>>

\* the idle check passes and select.select([server], [], [], 60) is called
Select ==
    /\ srv = "listening" /\ ~Expired
    /\ srv' = "selecting"
    /\ UNCHANGED <<listener, sockfile, pipe, req, out, nlines, nconns,
                   sb_line, term_line, nstreams, now, last_tts_time,
                   model_name, gen_model, env, calls, files, nopen, buffer,
                   nsent, taken, terr, unk_line>>
    /\ UNCHANGED <<segvars, binvars>>

\* `if not ready: continue`
SelectTimeout ==
    /\ srv = "selecting"
    /\ srv' = "listening"
    /\ UNCHANGED <<listener, sockfile, pipe, req, out, nlines, nconns,
                   sb_line, term_line, nstreams, now, last_tts_time,
                   model_name, gen_model, env, calls, files, nopen, buffer,
                   nsent, taken, terr, unk_line>>
    /\ UNCHANGED <<segvars, binvars>>

\* accept is called while a connection is still open
AcceptWhileServing ==
    /\ srv \in {"selecting", "serving"} /\ listener /\ nconns < MaxConns
    /\ srv' = "serving" /\ pipe' = "ok" /\ req' = NoLine /\ out' = <<>>
    /\ nlines' = 0 /\ nconns' = nconns + 1
    /\ sb_line' = 0 /\ term_line' = 0 /\ nstreams' = 0
    /\ env' = NoEnv /\ calls' = 0 /\ files' = {}
    /\ nopen' = nopen + 1 /\ buffer' = <<>> /\ nsent' = 0 /\ taken' = 0
    /\ unk_line' = 0
    /\ UNCHANGED <<listener, sockfile, now, last_tts_time, model_name,
                   gen_model, terr>>
    /\ UNCHANGED <<segvars, binvars>>

\* conn, addr = server.accept()
Accept ==
    /\ srv = "selecting" /\ listener /\ nconns < MaxConns
    /\ srv' = "serving" /\ pipe' = "ok" /\ req' = NoLine /\ out' = <<>>
    /\ nlines' = 0 /\ nconns' = nconns + 1
    /\ sb_line' = 0 /\ term_line' = 0 /\ nstreams' = 0
    /\ env' = NoEnv /\ calls' = 0 /\ files' = {}
    /\ nopen' = nopen + 1 /\ buffer' = <<>> /\ nsent' = 0 /\ taken' = 0
    /\ unk_line' = 0
    /\ UNCHANGED <<listener, sockfile, now, last_tts_time, model_name,
                   gen_model, terr>>
    /\ UNCHANGED <<segvars, binvars>>

\* the client sends one more line; conn.recv appends it to `buffer`
ClientSend ==
    /\ srv = "serving" /\ nsent < MaxLines
    /\ nsent' = nsent + 1
    /\ buffer' = Append(buffer, nsent + 1)
    /\ UNCHANGED <<srv, listener, sockfile, pipe, req, out, nlines, nconns,
                   sb_line, term_line, nstreams, now, last_tts_time,
                   model_name, gen_model, env, calls, files, nopen, taken,
                   terr, unk_line>>
    /\ UNCHANGED <<segvars, binvars>>

\* conn.recv returns b'': the inner loop breaks and conn is closed
PeerCloses ==
    /\ srv = "serving" /\ buffer = <<>>
    /\ srv' = "listening" /\ req' = NoLine /\ out' = <<>>
    /\ env' = NoEnv /\ calls' = 0 /\ files' = {}
    /\ nopen' = nopen - 1
    /\ UNCHANGED <<listener, sockfile, pipe, nlines, nconns, sb_line,
                   term_line, nstreams, now, last_tts_time, model_name,
                   gen_model, buffer, nsent, taken, terr, unk_line>>
    /\ UNCHANGED <<segvars, binvars>>

\* how many of the sends of one line can succeed: all of them, or fewer when
\* the peer goes away; none once a send has failed
SendsOk(planned) == IF pipe = "broken" THEN {0} ELSE 0..Len(planned)

IsTerminalFrame(m) == m.fmt = "binary" /\ m.kind \in {"End", "Error"}

\* the lines left in `buffer` once line k is taken out
rest(buf, k) == SelectSeq(buf, LAMBDA j : j # k)

\* line, buffer = buffer.split(b"\n", 1): the line that arrived first
first_line(buf) == Head(buf)

\* the exception of a line reaches no handler of run_server: the finally
\* clauses close the connection and the listening socket, and the process
\* exits
ServeLineUncaught(line, planned, must, raises, b, eff) ==
    LET written == SubSeq(planned, 1, b)
        raised == raises \/ (must /\ b < Len(planned))
    IN /\ req' = line
       /\ out' = written
       /\ nlines' = nlines + 1
       /\ taken' = first_line(buffer)
       /\ buffer' = IF raised THEN <<>>
                    ELSE rest(buffer, first_line(buffer))
       /\ pipe' = IF b < Len(planned) THEN "broken" ELSE pipe
       /\ terr' = (terr \/ b < Len(planned))
       /\ srv' = IF raised THEN "stopped" ELSE "serving"
       /\ listener' = ~raised
       /\ sockfile' = ~raised
       /\ nopen' = IF raised THEN nopen - 1 ELSE nopen
       /\ sb_line' = IF sb_line = 0 /\ line.method = "stream-binary"
                     THEN nlines + 1 ELSE sb_line
       /\ term_line' = IF term_line = 0
                          /\ \E i \in 1..Len(written) :
                                IsTerminalFrame(written[i])
                       THEN nlines + 1 ELSE term_line
       /\ nstreams' = IF line.method = "stream-binary"
                      THEN nstreams + 1 ELSE nstreams
       /\ last_tts_time' = IF eff.tts THEN now ELSE last_tts_time
       /\ gen_model' = IF eff.calls > 0 /\ eff.env.fail_at > 0
                       THEN DEFAULT_MODEL ELSE gen_model
       /\ env' = eff.env /\ calls' = eff.calls /\ files' = eff.files
       /\ unk_line' = IF line.kind = "request"
                         /\ line.method \notin KnownMethods
                      THEN nlines + 1 ELSE unk_line
       /\ UNCHANGED <<nconns, now, model_name, nsent>>

\* One line of `buffer` is handled: the messages `planned` are sent in
\* order, the first b of them successfully.  `must` tells that the failure
\* of a send is not swallowed, `raises` that the handling raises anyway; in
\* both cases the exception reaches `except Exception` of run_server, which
\* closes the connection.  eff holds what the handling does besides: whether
\* last_tts_time is set, the calls of generate_audio and the files left.
ServeLine(line, planned, must, raises, b, eff) ==
    LET written == SubSeq(planned, 1, b)
        raised == raises \/ (must /\ b < Len(planned))
    IN /\ req' = line
       /\ out' = written
       /\ nlines' = nlines + 1
       /\ taken' = first_line(buffer)
       /\ buffer' = IF raised THEN <<>>
                    ELSE rest(buffer, first_line(buffer))
       /\ pipe' = IF b < Len(planned) THEN "broken" ELSE pipe
       /\ terr' = (terr \/ b < Len(planned))
       /\ srv' = IF raised THEN "listening" ELSE "serving"
       /\ nopen' = IF raised THEN nopen - 1 ELSE nopen
       /\ sb_line' = IF sb_line = 0 /\ line.method = "stream-binary"
                     THEN nlines + 1 ELSE sb_line
       /\ term_line' = IF term_line = 0
                          /\ \E i \in 1..Len(written) :
                                IsTerminalFrame(written[i])
                       THEN nlines + 1 ELSE term_line
       /\ nstreams' = IF line.method = "stream-binary"
                      THEN nstreams + 1 ELSE nstreams
       /\ last_tts_time' = IF eff.tts THEN now ELSE last_tts_time
       /\ gen_model' = IF eff.calls > 0 /\ eff.env.fail_at > 0
                       THEN DEFAULT_MODEL ELSE gen_model
       /\ env' = eff.env /\ calls' = eff.calls /\ files' = eff.files
       /\ unk_line' = IF line.kind = "request"
                         /\ line.method \notin KnownMethods
                      THEN nlines + 1 ELSE unk_line
       /\ UNCHANGED <<listener, sockfile, nconns, now, model_name, nsent>>

\* `while b"\n" in buffer:` on an open connection
CanServe == srv = "serving" /\ buffer # <<>>

\* `if not line: continue`
BlankLine ==
    /\ CanServe
    /\ \E line \in Lines :
          /\ line.kind = "blank"
          /\ req' = line /\ out' = <<>>
    /\ taken' = first_line(buffer)
    /\ buffer' = rest(buffer, first_line(buffer))
    /\ env' = NoEnv /\ calls' = 0 /\ files' = {}
    /\ UNCHANGED <<srv, listener, sockfile, pipe, nlines, nconns, sb_line,
                   term_line, nstreams, now, last_tts_time, model_name,
                   gen_model, nopen, nsent, terr, unk_line>>
    /\ UNCHANGED <<segvars, binvars>>

\* line.decode("utf-8") raises UnicodeDecodeError
BadUtf8Line ==
    /\ CanServe
    /\ \E line \in Lines :
          /\ line.kind = "bad_utf8"
          /\ ServeLine(line, <<>>, FALSE, TRUE, 0, NoEffect)
    /\ UNCHANGED <<segvars, binvars>>

\* json.loads raises JSONDecodeError
BadJsonLine ==
    /\ CanServe
    /\ \E line \in Lines :
          /\ line.kind = "bad_json"
          /\ LET planned == <<Json("response", Absent, Absent,
                                   {PARSE_ERROR}, 0)>>
             IN \E b \in SendsOk(planned) :
                   ServeLine(line, planned, TRUE, FALSE, b, NoEffect)
    /\ UNCHANGED <<segvars, binvars>>

\* the line is JSON but no object: request.get raises AttributeError
NonObjectLine ==
    /\ CanServe
    /\ \E line \in Lines :
          /\ line.kind = "non_object"
          /\ ServeLine(line, <<>>, FALSE, TRUE, 0, NoEffect)
    /\ UNCHANGED <<segvars, binvars>>

\* the shutdown branch of run_server: when the confirmation is sent, conn is
\* closed and run_server returns through the finally clause that closes the
\* listening socket and removes SOCKET_PATH; when the send raises, the
\* exception is caught by `except Exception` and only conn is closed
Shutdown ==
    /\ CanServe
    /\ \E line \in Requests :
          /\ line.method = "shutdown"
          /\ LET planned == <<Json("response", line.id, "shutting_down",
                                   NoError, 0)>>
             IN \E b \in SendsOk(planned) :
                   /\ req' = line
                   /\ out' = SubSeq(planned, 1, b)
                   /\ nlines' = nlines + 1
                   /\ pipe' = IF b < 1 THEN "broken" ELSE pipe
                   /\ terr' = (terr \/ b < 1)
                   /\ srv' = IF b < 1 THEN "listening" ELSE "stopped"
                   /\ listener' = (b < 1)
                   /\ sockfile' = (b < 1)
    /\ taken' = first_line(buffer)
    /\ buffer' = <<>>
    /\ nopen' = nopen - 1
    /\ env' = NoEnv /\ calls' = 0 /\ files' = {}
    /\ UNCHANGED <<nconns, sb_line, term_line, nstreams, now, last_tts_time,
                   model_name, gen_model, nsent, unk_line>>
    /\ UNCHANGED <<segvars, binvars>>

Health ==
    /\ CanServe
    /\ \E line \in Requests :
          /\ line.method = "health"
          /\ LET planned == handle_health(request_id(line), model_name)
                 eff == [NoEffect EXCEPT !.tts = is_tts(line.method)]
             IN \E b \in SendsOk(planned) :
                   ServeLine(line, planned, TRUE, FALSE, b, eff)
    /\ UNCHANGED <<segvars, binvars>>

ListModels ==
    /\ CanServe
    /\ \E line \in Requests :
          /\ line.method = "list-models"
          /\ LET planned == handle_list_models(request_id(line))
                 eff == [NoEffect EXCEPT !.tts = is_tts(line.method)]
             IN \E b \in SendsOk(planned) :
                   ServeLine(line, planned, TRUE, FALSE, b, eff)
    /\ UNCHANGED <<segvars, binvars>>

UnknownMethod ==
    /\ CanServe
    /\ \E line \in Requests :
          /\ line.method \notin KnownMethods
          /\ LET planned == unknown_method(request_id(line))
                 eff == [NoEffect EXCEPT !.tts = is_tts(line.method)]
             IN \E b \in SendsOk(planned) :
                   ServeLine(line, planned, TRUE, FALSE, b, eff)
    /\ UNCHANGED <<segvars, binvars>>

\* what generate_audio and the file system can do for a request: fail_at is
\* at most the number of units, a file can be unreadable only if it was
\* written and only handle_generate reads it outside a try block, and the
\* partial output is attempted only after a failure that left saved units
Envs(line) ==
    {e \in [fail_at : 0..MaxUnits, fail_kind : {"model", "read"},
            audio : BOOLEAN, recover_ok : BOOLEAN] :
        /\ e.fail_at <= line.text
        /\ (line.text = 0 => e = NoEnv)
        /\ (e.fail_kind = "read" =>
               /\ line.method = "generate" /\ ~line.stream
               /\ e.audio /\ e.fail_at < line.text)
        /\ (~e.recover_ok =>
               /\ line.method = "generate" /\ ~line.stream
               /\ e.audio /\ 0 < e.fail_at /\ e.fail_at < line.text)}

Generate ==
    /\ CanServe
    /\ \E line \in Requests :
          /\ line.method = "generate"
          /\ \E e \in Envs(line) :
                LET planned == handle_generate(request_id(line), line.text,
                                   line.stream, e.fail_at, e.audio,
                                   e.recover_ok, model_name)
                    eff == [tts |-> is_tts(line.method),
                            calls |-> generate_calls(line.text, e.fail_at),
                            files |-> generate_files(line.text, line.stream,
                                          e.fail_at, e.fail_kind, e.audio,
                                          e.recover_ok),
                            env |-> e]
                IN \E b \in SendsOk(planned) :
                      ServeLine(line, planned, TRUE, FALSE, b, eff)
    /\ UNCHANGED <<segvars, binvars>>

\* handle_stream_binary swallows the failure of a send, except that of the
\* Error frame written for a missing text, which leaves handle_request
\* before last_tts_time is set
StreamBinary ==
    /\ CanServe
    /\ \E line \in Requests :
          /\ line.method = "stream-binary"
          /\ \E e \in Envs(line) :
                LET planned == handle_stream_binary(line.text, e.fail_at,
                                                    e.audio)
                IN \E b \in SendsOk(planned) :
                      LET must == text_missing(line.text)
                          eff == [tts |-> is_tts(line.method)
                                          /\ ~(must /\ b < Len(planned)),
                                  calls |-> stream_binary_calls(line.text,
                                                e.fail_at, e.audio, b),
                                  files |-> {},
                                  env |-> e]
                      IN ServeLine(line, planned, must, FALSE, b, eff)
    /\ UNCHANGED <<segvars, binvars>>

SrvNext ==
    \/ Tick \/ IdleShutdown \/ Select \/ SelectTimeout
    \/ Accept \/ ClientSend \/ PeerCloses
    \/ BlankLine \/ BadUtf8Line \/ BadJsonLine \/ NonObjectLine
    \/ Shutdown \/ Health \/ ListModels \/ UnknownMethod
    \/ Generate \/ StreamBinary

SegNext == Split

BinNext ==
    \/ WriteChunk \/ WriteEnd \/ WriteError
    \/ RecvHeader \/ ReadHeader \/ HeaderRead \/ Unpack
    \/ RecvBody \/ ReadBody \/ BodyRead \/ Decode

\* the inputs of one call of split_text_into_chunks; the codec and the
\* server are not running
InitSeg ==
    /\ text \in SeqsUpTo(InputChars, MaxTextLen)
    /\ max_chars \in 1..MaxMaxChars
    /\ chunks = <<>>
    /\ segpc = "call"
    /\ bmsg = NoResult /\ skind = "socket" /\ wire = <<>> /\ complete = FALSE
    /\ rpc = "off" /\ hdr = <<>> /\ body = <<>> /\ rres = NoResult
    /\ rspin = FALSE
    /\ srv = "off" /\ listener = FALSE /\ sockfile = FALSE /\ pipe = "ok"
    /\ req = NoLine /\ out = <<>> /\ nlines = 0 /\ nconns = 0
    /\ sb_line = 0 /\ term_line = 0 /\ nstreams = 0
    /\ now = 0 /\ last_tts_time = 0 /\ model_name = Absent
    /\ gen_model = Absent /\ env = NoEnv /\ calls = 0 /\ files = {}
    /\ nopen = 0 /\ buffer = <<>> /\ nsent = 0 /\ taken = 0
    /\ terr = FALSE /\ unk_line = 0

\* one message to write and the kind of stream it is written to; the
\* segmenter and the server are not running
InitBin ==
    /\ bmsg \in Messages
    /\ skind \in StreamKinds
    /\ wire = <<>> /\ complete = FALSE
    /\ rpc = "write" /\ hdr = <<>> /\ body = <<>> /\ rres = NoResult
    /\ rspin = FALSE
    /\ text = <<>> /\ max_chars = 0 /\ chunks = <<>> /\ segpc = "off"
    /\ srv = "off" /\ listener = FALSE /\ sockfile = FALSE /\ pipe = "ok"
    /\ req = NoLine /\ out = <<>> /\ nlines = 0 /\ nconns = 0
    /\ sb_line = 0 /\ term_line = 0 /\ nstreams = 0
    /\ now = 0 /\ last_tts_time = 0 /\ model_name = Absent
    /\ gen_model = Absent /\ env = NoEnv /\ calls = 0 /\ files = {}
    /\ nopen = 0 /\ buffer = <<>> /\ nsent = 0 /\ taken = 0
    /\ terr = FALSE /\ unk_line = 0

\* the state of run_server when the accept loop is entered; the segmenter
\* and the codec are not running
InitSrv ==
    /\ srv = "listening" /\ listener = TRUE /\ sockfile = TRUE /\ pipe = "ok"
    /\ req = NoLine /\ out = <<>> /\ nlines = 0 /\ nconns = 0
    /\ sb_line = 0 /\ term_line = 0 /\ nstreams = 0
    /\ now = 0 /\ last_tts_time = 0 /\ model_name = Absent
    /\ gen_model = Absent /\ env = NoEnv /\ calls = 0 /\ files = {}
    /\ nopen = 0 /\ buffer = <<>> /\ nsent = 0 /\ taken = 0
    /\ terr = FALSE /\ unk_line = 0
    /\ text = <<>> /\ max_chars = 0 /\ chunks = <<>> /\ segpc = "off"
    /\ bmsg = NoResult /\ skind = "socket" /\ wire = <<>> /\ complete = FALSE
    /\ rpc = "off" /\ hdr = <<>> /\ body = <<>> /\ rres = NoResult
    /\ rspin = FALSE

SpecSeg ==
    InitSeg /\ [][SegNext]_vars

SpecBin ==
    InitBin /\ [][BinNext]_vars

SpecSrv ==
    InitSrv /\ [][SrvNext]_vars

\* a line of `buffer` is handled
HandleLine ==
    \/ BlankLine \/ BadUtf8Line \/ BadJsonLine \/ NonObjectLine
    \/ Shutdown \/ Health \/ ListModels \/ UnknownMethod
    \/ Generate \/ StreamBinary

\* run_server with its scheduling: the clock goes on, the single thread of
\* run_server gets on with the idle check, with select (which returns
\* after 60 seconds at the latest) and with the lines it has received.
\* Nothing makes a client connect, send a line or close its connection.
SpecSrvFair ==
    /\ InitSrv /\ [][SrvNext]_vars
    /\ WF_vars(Tick)
    /\ WF_vars(IdleShutdown) /\ WF_vars(Select) /\ WF_vars(SelectTimeout)
    /\ WF_vars(HandleLine)

(***************************************************************************)
(* Properties of split_text_into_chunks (SpecSeg)                          *)
(***************************************************************************)
\* a unit holds no sentence boundary and no clause boundary
Atomic(u) ==
    \A i \in 1..(Len(u) - 1) :
        ~(u[i] \in (SentenceEnd \cup ClauseEnd) /\ u[i + 1] \in Whitespace)

\* C1: for every text and every max_chars, no returned unit is the empty
\* string and every unit is free of leading and trailing whitespace.
C1_UnitsNonEmptyTrimmed ==
    segpc = "done" =>
        \A i \in 1..Len(chunks) :
            chunks[i] # <<>> /\ strip(chunks[i]) = chunks[i]

\* C2: joining the returned units with single spaces, in order, yields
\* exactly the whitespace-normalized text.
C2_JoinReconstructs ==
    segpc = "done" => join_space(chunks) = normalize(text)

\* a text whose whitespace had to be normalized and one of whose sentences
\* was split at a clause boundary into several units
C2_Witness ==
    /\ segpc = "done" /\ Len(chunks) >= 2 /\ text # normalize(text)
    /\ \E i \in 1..(Len(chunks) - 1) :
          chunks[i][Len(chunks[i])] \in ClauseEnd

\* C3: every unit is at most max_chars long unless it is one clause that
\* holds no sentence boundary and no clause boundary; each such oversized
\* clause of the normalized text is a unit of its own.
C3_BoundedUnlessAtomic ==
    segpc = "done" =>
        /\ \A i \in 1..Len(chunks) :
              Len(chunks[i]) <= max_chars \/ Atomic(chunks[i])
        /\ LET sents == re_split(normalize(text), SentenceEnd, <<>>, <<>>)
           IN \A k \in 1..Len(sents) :
                 LET cls == re_split(sents[k], ClauseEnd, <<>>, <<>>)
                 IN \A j \in 1..Len(cls) :
                       Len(cls[j]) > max_chars =>
                           \E i \in 1..Len(chunks) : chunks[i] = cls[j]

\* an oversized clause was emitted next to a unit within the limit
C3_Witness ==
    /\ segpc = "done"
    /\ \E i, j \in 1..Len(chunks) :
          /\ Len(chunks[i]) > max_chars
          /\ Len(chunks[j]) <= max_chars
          /\ Len(chunks[j]) > 1

(***************************************************************************)
(* Properties of the binary codec (SpecBin)                                *)
(***************************************************************************)
Returned == rpc \in {"done", "raised"}

\* the chunk message read_chunk is expected to return for bmsg
SameChunk ==
    rres = [type |-> "chunk", id |-> bmsg.id, samples |-> bmsg.samples,
            sample_rate |-> bmsg.rate]

C5_ExactConsumption ==
    (Returned /\ complete) =>
        /\ rpc = "done"
        /\ Len(hdr) = HEADER_LEN
        /\ Len(body) = BodyLen(unpack_header(hdr))
        /\ (rres.type = "end" =>
               rres.total_chunks = unpack_header(hdr).count)
        /\ (rres.type = "error" =>
               Len(utf8_encode(rres.message))
                   = U32ToNat(unpack_header(hdr).count))
        /\ (rres.type = "chunk" =>
               Len(rres.samples) = U32ToNat(unpack_header(hdr).count))

(***************************************************************************)
(* Properties of the server (SpecSrv)                                      *)
(***************************************************************************)
\* C6: once a stream-binary request has been received on a connection, no
\* further line of that connection is parsed, nothing but SPKR frames is
\* written to it, and at most one binary stream is produced on it.
C6_BinaryModeIsFinal ==
    sb_line # 0 =>
        /\ nlines = sb_line
        /\ \A i \in 1..Len(out) : out[i].fmt = "binary"
        /\ nstreams <= 1

\* C7: a binary End or Error is the last message on its connection: no
\* message of any kind is written after it, and no stream holds both.
C7_TerminalFrameIsLast ==
    /\ (term_line # 0 /\ nlines > term_line) => out = <<>>
    /\ \A i \in 1..Len(out) : IsTerminalFrame(out[i]) => i = Len(out)

\* C8: every terminal Response holds exactly one of the fields result and
\* error, for every method and outcome, with and without stream=true.
C8_ResultXorError ==
    \A i \in 1..Len(out) :
        out[i].kind = "response" =>
            ~((out[i].result # Absent) <=> (out[i].error # NoError))

\* C9: every JSON message sent in reply to a request that carries an id
\* (response, progress, status, streamed chunk) carries that id, for every
\* method including shutdown and unknown methods.
C9_ReplyEchoesId ==
    (req.kind = "request" /\ req.id # NoId) =>
        \A i \in 1..Len(out) :
            out[i].fmt = "json" => out[i].id = req.id

\* a generate request with id "2", not the first line of its connection,
\* was answered by status, progress events and a response
C9_Witness ==
    /\ req.kind = "request" /\ req.method = "generate" /\ req.id = "2"
    /\ nlines >= 2 /\ Len(out) >= 4
    /\ out[1].kind = "status" /\ out[2].kind = "progress"
    /\ out[Len(out)].kind = "response"

\* C10: a line that cannot be decoded as UTF-8 JSON is answered with exactly
\* one Response with code -32700 and no id, and the connection stays open
\* for the following lines.
C10_UndecodableLineAnswered ==
    (req.kind \in {"bad_utf8", "bad_json"} /\ pipe = "ok") =>
        /\ out = <<Json("response", Absent, Absent, {PARSE_ERROR}, 0)>>
        /\ srv = "serving"

\* the step handles a request line
Handled == nlines' = nlines + 1 /\ req'.kind = "request"

\* C11: a request for an unknown method is answered with exactly one
\* Response with error code -1 and the request's id; the idle timer, the
\* model state and the files are left as they were and the connection stays
\* open, and a health request that follows on the connection is answered.
C11_UnknownMethodAnswered ==
    /\ [][(Handled /\ req'.method \notin KnownMethods /\ pipe' = "ok") =>
            /\ Len(out') = 1
            /\ out'[1].kind = "response"
            /\ out'[1].error = {UNKNOWN_METHOD}
            /\ out'[1].result = Absent
            /\ (req'.id # NoId => out'[1].id = req'.id)
            /\ last_tts_time' = last_tts_time
            /\ model_name' = model_name /\ gen_model' = gen_model
            /\ calls' = 0 /\ files' = {}
            /\ srv' = "serving" /\ nopen' = nopen
            /\ listener' /\ sockfile']_vars
    /\ []((/\ unk_line # 0 /\ nlines = unk_line + 1
           /\ req.method = "health" /\ pipe = "ok")
              => /\ Len(out) = 1
                 /\ out[1].result = "health" /\ out[1].error = NoError)

\* a health request was answered right after a request for an unknown
\* method on the same connection, the idle timer being older than the clock
C11_Witness ==
    /\ unk_line # 0 /\ nlines = unk_line + 1
    /\ req.method = "health" /\ Len(out) = 1 /\ out[1].result = "health"
    /\ last_tts_time < now

\* C12: a generate request whose text is missing or empty is answered with
\* exactly one error Response with code 1, with and without stream=true:
\* the model is not invoked, no status, progress or chunk message is sent,
\* no file is created and the connection stays open.
C12_NoTextRejected ==
    (/\ req.kind = "request" /\ req.method = "generate" /\ req.text = 0
     /\ pipe = "ok")
        => /\ Len(out) = 1
           /\ out[1].kind = "response"
           /\ out[1].error = {NO_TEXT} /\ out[1].result = Absent
           /\ calls = 0 /\ files = {}
           /\ srv = "serving" /\ nopen = 1

\* a generate request with stream=true and no text was answered
C12_Witness ==
    /\ req.kind = "request" /\ req.method = "generate" /\ req.text = 0
    /\ req.stream /\ Len(out) = 1 /\ out[1].error = {NO_TEXT}
    /\ srv = "serving"

\* a non-streaming generate request failed at unit env.fail_at after the
\* units before it had each left their audio file, and was answered
FailedAfterUnits ==
    /\ req.kind = "request" /\ req.method = "generate" /\ ~req.stream
    /\ req.text > 0 /\ env.fail_at < req.text /\ env.audio
    /\ env.fail_at >= 1
    /\ pipe = "ok"

\* the answer is a result with complete=false, k units and a reason, that
\* names a partial file holding units 0..k-1 in order, and the scratch
\* files of these units are gone
PartialOf(k) ==
    LET r == out[Len(out)]
    IN /\ r.kind = "response" /\ r.error = NoError
       /\ r.result = "partial" /\ r.n = k /\ r.reason
       /\ r.path = "partial"
       /\ File("partial", 0, [i \in 1..k |-> i - 1]) \in files
       /\ \A f \in files : f.name = "partial" => f.holds = [i \in 1..k |-> i - 1]
       /\ \A f \in files : f.name # "full"
       /\ \A f \in files : f.name = "chunk" => f.idx >= k

FailedBeforeUnits ==
    /\ req.kind = "request" /\ req.method = "generate" /\ ~req.stream
    /\ req.text > 0 /\ env.fail_at < req.text
    /\ (env.fail_at = 0 \/ ~env.audio)
    /\ pipe = "ok"

\* C14: when a non-streaming generate request fails before any unit has
\* completed, no output file, full or partial, is written and the terminal
\* Response is an error with code 2, never a result.
C14_NoUnitNoOutput ==
    FailedBeforeUnits =>
        LET r == out[Len(out)]
        IN /\ r.kind = "response"
           /\ r.error = {GENERATION_FAILED} /\ r.result = Absent
           /\ r.path = Absent
           /\ \A f \in files : f.name \notin {"full", "partial"}
           /\ \A i \in 1..(Len(out) - 1) : out[i].kind # "response"

\* a request for two units failed at the first one
C14_Witness ==
    /\ FailedBeforeUnits /\ req.text = 2 /\ env.fail_at = 0
    /\ out[Len(out)].error = {GENERATION_FAILED}
    /\ calls = 1

\* C15: whenever a shutdown request has been received the server reaches
\* Terminating on every path: one confirmation is sent, the connection is
\* closed, the listening socket is closed and the socket file removed, and
\* no further connection or request is served.
C15_ShutdownTerminates ==
    (req.kind = "request" /\ req.method = "shutdown") =>
        /\ srv = "stopped" /\ ~listener /\ ~sockfile /\ nopen = 0
        /\ Len(out) = 1 /\ out[1].result = "shutting_down"

\* the request handled last was a generation request that succeeded: its
\* last message is a result, or the End frame of a binary stream
Succeeded ==
    /\ req.kind = "request" /\ is_tts(req.method)
    /\ Len(out) > 0
    /\ LET r == out[Len(out)]
       IN \/ r.kind = "response" /\ r.error = NoError
          \/ r.fmt = "binary" /\ r.kind = "End"

\* C16: the idle timer is reset only by a generation request that
\* succeeded; health, list-models, unknown methods, malformed lines,
\* rejected or failed generation requests and the opening and closing of a
\* connection leave it unchanged.
C16_TimerResetOnlyBySuccess ==
    [][last_tts_time' # last_tts_time => (Handled /\ Succeeded')]_vars

\* C17: once the idle duration exceeds the threshold and no generation
\* request resets it, the server eventually reaches Terminating, whatever
\* other activity the clients show, including clients that connect and
\* send nothing or keep their connection open.
C17_IdleLeadsToStop ==
    Expired ~> (srv = "stopped" \/ ~Expired)

\* C18: at most one accepted connection is open at any moment and accept is
\* never called while one is; within a connection the lines are taken one
\* at a time in the order of their arrival, none being skipped.
C18_OneConnectionInOrder ==
    /\ [](nopen <= 1 /\ (srv = "serving" <=> nopen = 1))
    /\ [][/\ (nconns' # nconns => nopen = 0 /\ nopen' = 1)
          /\ (taken' # taken =>
                 \/ (nconns' # nconns /\ taken' = 0)
                 \/ (srv = "serving" /\ taken' = taken + 1))]_vars

\* on the second connection the first line has been answered while the
\* second one waits in the buffer
C18_Witness ==
    /\ nconns = 2 /\ nopen = 1 /\ taken = 1 /\ buffer = <<2>>
    /\ req.kind = "request" /\ Len(out) > 0

\* C19: a transport error on a connection (the peer closes, a send fails)
\* ends the handling of that connection only: the server does not stop, the
\* listening socket stays open and the socket file stays, the connection is
\* closed as soon as the failure is not swallowed, and a later connection is
\* accepted and served.
C19_TransportErrorEndsConnectionOnly ==
    /\ [][/\ ((pipe = "ok" /\ pipe' = "broken") =>
                 /\ srv' \in {"listening", "serving"}
                 /\ listener' /\ sockfile'
                 /\ (~(req'.method = "stream-binary" /\ req'.text > 0)
                        => srv' = "listening" /\ nopen' = 0))
          /\ ((srv = "serving" /\ pipe = "broken") =>
                 /\ srv' \in {"listening", "serving"}
                 /\ listener' /\ sockfile'
                 /\ (taken' # taken => out' = <<>>))
          /\ ((nopen' < nopen /\ out' = <<>>) =>
                 srv' = "listening" /\ listener' /\ sockfile')]_vars
    /\ []((terr /\ srv = "serving" /\ pipe = "ok" /\ req.method = "health")
              => Len(out) = 1 /\ out[1].result = "health")

\* after a send had failed on the first connection, a health request was
\* answered on the second
C19_Witness ==
    /\ terr /\ nconns = 2 /\ srv = "serving" /\ pipe = "ok"
    /\ req.method = "health" /\ Len(out) = 1 /\ out[1].result = "health"

\* C20: the result of health names the loaded model: none before any load,
\* and M once a generation request has caused M to be loaded; health leaves
\* the model state and the idle timer as they are.
C20_HealthReportsLoadedModel ==
    (req.kind = "request" /\ req.method = "health" /\ Len(out) = 1) =>
        /\ out[1].result = "health"
        /\ out[1].model = gen_model
        /\ model_name = gen_model

\* C21: when a non-streaming generate request has been answered with a
\* Response of any kind (complete result, partial result or error), no
\* scratch unit file of that request is left on disk.
C21_NoScratchLeft ==
    (/\ req.kind = "request" /\ req.method = "generate" /\ ~req.stream
     /\ Len(out) > 0 /\ out[Len(out)].kind = "response")
        => \A f \in files : f.name # "chunk"

ChunksSent == SelectSeq(out, LAMBDA m : m.fmt = "binary" /\ m.kind = "Chunk")

\* the End frames written for the last line
EndsSent == SelectSeq(out, LAMBDA m : m.fmt = "binary" /\ m.kind = "End")

\* C23: in a binary stream the Chunk frames carry the ids 0, 1, 2, ... in
\* the order of sending, without gap or repetition; the Chunk of a unit is
\* sent before the model is called for the next unit; and a stream that
\* succeeds has exactly one End frame, written last, whose count is the
\* number of Chunk frames sent.
C23_BinaryStreamOrdered ==
    (req.kind = "request" /\ req.method = "stream-binary")
        => /\ \A i \in 1..Len(ChunksSent) :
                 /\ ChunksSent[i].n = i - 1
                 /\ out[i] = ChunksSent[i]
           /\ (env.audio => calls <= Len(ChunksSent) + 1)
           /\ Len(EndsSent) <= 1
           /\ (Len(EndsSent) = 1 =>
                 /\ out[Len(out)].kind = "End"
                 /\ out[Len(out)].n = Len(ChunksSent))
           /\ ((Len(out) > 0 /\ env.fail_at = req.text /\ req.text > 0
                    /\ ~terr)
                 => Len(EndsSent) = 1)

\* a stream of two units was written in full
C23_Witness ==
    /\ req.kind = "request" /\ req.method = "stream-binary"
    /\ req.text = 2 /\ calls = 2
    /\ out = <<Frame("Chunk", 0), Frame("Chunk", 1), Frame("End", 2)>>

\* the progress events written for the last line, in the order of writing
ProgressSent == SelectSeq(out, LAMBDA m : m.kind = "progress")

C25_RaisedErrorAnswered ==
    (req.kind = "non_object" /\ pipe = "ok")
        => /\ Len(out) > 0
           /\ out[Len(out)].kind = "response"
           /\ out[Len(out)].error # NoError

\* the pieces of a text in order: its sentences, an over-long sentence
\* replaced by its clauses
RECURSIVE Pieces(_, _)
Pieces(sentences, limit) ==
    IF sentences = <<>> THEN <<>>
    ELSE LET sentence == strip(Head(sentences))
         IN (IF sentence = <<>> THEN <<>>
             ELSE IF Len(sentence) > limit
                  THEN re_split(sentence, ClauseEnd, <<>>, <<>>)
                  ELSE <<sentence>>)
            \o Pieces(Tail(sentences), limit)

\* the units of greedy packing with the one flush rule: the buffer is
\* flushed before a piece only if the piece and one space do not fit
GreedyUnits(pieces, limit) ==
    LET r == pack_clauses(pieces, limit, <<>>, <<>>)
    IN IF r.current_chunk # <<>>
       THEN Append(r.chunks, strip(r.current_chunk))
       ELSE r.chunks

\* C26: the units of a text longer than max_chars are those of greedy
\* packing of its pieces (sentences, and the clauses of over-long
\* sentences) with one flush rule: a boundary lies between two consecutive
\* pieces only if the next piece and one space do not fit into the buffer,
\* and the clauses of an over-long sentence go into the buffer pending when
\* the sentence is reached.
C26_OneFlushRule ==
    (segpc = "done" /\ Len(normalize(text)) > max_chars)
        => chunks = GreedyUnits(
                        Pieces(re_split(normalize(text), SentenceEnd,
                                        <<>>, <<>>), max_chars),
                        max_chars)

\* read_chunk has been called and has neither returned nor raised
Reading == rpc \in {"header", "unpack", "body", "decode"}

\* C27: read_chunk always terminates: while it is running, and also when
\* the stream has ended before a complete header or body arrived, its next
\* step brings it forward (another byte read, a loop left, a result
\* returned or an error raised); it is never in a state that its next read
\* can only repeat.
C27_ReadChunkTerminates == Reading => ENABLED (BinNext /\ vars' # vars)

====
